---- MODULE Spec2Model ----
(***************************************************************************)
(* Grouping-and-aggregation over a sequence of items.                      *)
(*                                                                         *)
(*   akt1.rs  the eager form: GroupingImpl holds a Vec (raw) and a key     *)
(*            selector; trait Grouping gives aggregate and the operations  *)
(*            derived from it, all taking &self.                           *)
(*   akt2.rs  the lazy form: Grouping wraps an iterator and a key          *)
(*            selector, is itself an iterator of (key, item) pairs, and    *)
(*            its aggregate and derived operations consume it.             *)
(*                                                                         *)
(* One behaviour fixes an item sequence (src) and the operation the        *)
(* caller invokes (op), and then runs any number of passes, eager or lazy, *)
(* one after the other.  A pass is modelled statement by statement of the  *)
(* aggregate loop.  Caller-supplied callbacks are free constructors: the   *)
(* value they return records the callback and every argument it was given, *)
(* so that two different call histories never give the same accumulator.   *)
(***************************************************************************)
EXTENDS Integers, Sequences, FiniteSets, TLC

\* Longest source sequence explored.
MaxLen == 3

\* The items a source may hold.  Under the key selector (item % 3) the items
\* 3 and 6 share key 0, item 4 has key 1 and item 5 has key 2.
Items == {3, 4, 5, 6}

Sources == UNION {[1..n -> Items] : n \in 0..MaxLen}

\* The user may keep calling next() after the end of the sequence.
MaxPulls == MaxLen + 2

EagerOps == {"aggregate", "fold_with_key", "fold", "reduce_with_key", "each_count"}

LazyOps == EagerOps \cup {"fold_with", "reduce", "next"}

VARIABLES
    src,        \* the item sequence both forms are built over
    op,         \* the method the caller invokes on the grouping
    raw,        \* eager form: GroupingImpl.raw
    cur,        \* eager form: items the slice iterator of raw has handed out
    iter,       \* lazy form: Grouping.iter, the items not yet pulled
    form,       \* "none", or the form of the current / latest pass
    pc,         \* position of the caller / of the aggregate loop
    item,       \* Option: the item of the current iteration
    key,        \* Option: the key of the current iteration
    entry,      \* Option: what m.remove(&key) returned
    value,      \* Option: what the combining operation returned
    m,          \* the HashMap being built
    calls,      \* every callback invocation of the current / latest pass, in order
    pulls,      \* lazy form: calls of Grouping::next so far
    yielded,    \* lazy form: what each next() of the user returned
    lastEager,  \* Option: the mapping the latest eager pass returned
    lastLazy,   \* Option: the mapping the latest lazy pass returned
    fault       \* Option: the caller-supplied function that panicked, and on which item

vars == <<src, op, raw, cur, iter, form, pc, item, key, entry, value, m, calls,
          pulls, yielded, lastEager, lastLazy, fault>>

-----------------------------------------------------------------------------
(* Option<T> *)

None == <<>>

Some(v) == <<v>>

IsNone(o) == Len(o) = 0

IsSome(o) == Len(o) = 1

Unwrap(o) == o[1]

\* Option::unwrap_or: the default is an argument, evaluated by the caller
\* before the call whatever the option holds.
UnwrapOr(o, default) == IF IsSome(o) THEN o[1] ELSE default

-----------------------------------------------------------------------------
(* HashMap<K, R>: a function from the keys present to their values *)

EmptyMap == [k \in {} |-> None]

\* Variant: the lookup misses; the key is removed but its value is not handed back.
MapRemove_Miss(map, k) ==
    [ret |-> None, map |-> [j \in DOMAIN map \ {k} |-> map[j]]]

\* Variant: the removal empties the map.
MapRemove_Clear(map, k) ==
    [ret |-> IF k \in DOMAIN map THEN Some(map[k]) ELSE None, map |-> EmptyMap]

\* HashMap::remove: the value removed, if any, and the map without the key.
MapRemove(map, k) ==
    [ret |-> IF k \in DOMAIN map THEN Some(map[k]) ELSE None,
     map |-> [j \in DOMAIN map \ {k} |-> map[j]]]

\* HashMap::insert: the key maps to v, whatever it mapped to before.
MapInsert(map, k, v) ==
    [j \in DOMAIN map \cup {k} |-> IF j = k THEN v ELSE map[j]]

-----------------------------------------------------------------------------
(* The callback log *)

Call(fn, args, ret) == [fn |-> fn, args |-> args, ret |-> ret]

RECURSIVE CallsOf(_, _)
CallsOf(log, fn) ==
    IF log = <<>> THEN <<>>
    ELSE IF log[1].fn = fn THEN <<log[1]>> \o CallsOf(Tail(log), fn)
    ELSE CallsOf(Tail(log), fn)

-----------------------------------------------------------------------------
(* Caller-supplied functions *)

\* The key selector of the tests: |i| *i % 3.
key_selector(x) == x % 3

\* aggregate's operation: (&K, Option<R>, item) -> R.
AggregateOperation(k, accumulator, x) == <<"operation", k, accumulator, x>>

\* fold_with_key's initial_value_selector: (&K, &item) -> R.
InitialValueSelector(k, x) == <<"initial_value_selector", k, x>>

\* fold_with's initial_value_provider: FnMut() -> R.  It may hold state: its
\* n-th invocation returns a value that records n.
InitialValueProvider(n) == <<"initial_value_provider", n>>

\* fold's initial_value.
InitialValue == <<"initial_value">>

\* The operation of fold_with_key, fold_with and reduce_with_key: (&K, R, item) -> R.
KeyedOperation(k, accumulator, x) == <<"operation", k, accumulator, x>>

\* The operation of fold and reduce: (R, item) -> R.
PlainOperation(accumulator, x) == <<"operation", accumulator, x>>

\* Into<R> for the item type: the conversion of an item into an accumulator.
Into(x) == <<"into", x>>

\* Clone for R: an equal value.
Clone(v) == v

-----------------------------------------------------------------------------
(* akt1.rs: the closures the derived operations of the eager form hand to  *)
(* aggregate.  Each gives the value returned and the callbacks it invoked. *)

\* aggregate called by the user: the operation is the user's own.
EagerAggregateArg(k, accumulator, x) ==
    [ret |-> AggregateOperation(k, accumulator, x), calls |-> <<>>]

\* fold_with_key: operation(key, accumulator.unwrap_or(initial_value_selector(key, item)), item)
EagerFoldWithKeyArg(k, accumulator, x) ==
    LET seed == InitialValueSelector(k, x)
        acc == UnwrapOr(accumulator, seed)
        ret == KeyedOperation(k, acc, x)
    IN  [ret |-> ret,
         calls |-> <<Call("initial_value_selector", <<k, x>>, seed),
                     Call("operation", <<k, acc, x>>, ret)>>]

\* Variant: the count is not incremented.
EagerEachCountOperation_NoIncrement(accumulator, x) == accumulator

\* each_count: self.fold(0, |accumulator, _| accumulator + 1)
EagerEachCountOperation(accumulator, x) == accumulator + 1

EagerFoldInitialValue == IF op = "each_count" THEN 0 ELSE InitialValue

EagerFoldOperation(accumulator, x) ==
    IF op = "each_count" THEN EagerEachCountOperation(accumulator, x)
    ELSE PlainOperation(accumulator, x)

\* Variant: the first item of a key only seeds the accumulator.
EagerFoldArg_SeedOnly(k, accumulator, x) ==
    LET seed == Clone(EagerFoldInitialValue)
        ret == IF IsSome(accumulator) THEN EagerFoldOperation(Unwrap(accumulator), x)
               ELSE seed
    IN  [ret |-> ret,
         calls |-> <<Call("clone", <<EagerFoldInitialValue>>, seed)>>
                   \o (IF IsSome(accumulator)
                       THEN <<Call("operation", <<Unwrap(accumulator), x>>, ret)>>
                       ELSE <<>>)]

\* fold: operation(accumulator.unwrap_or(initial_value.clone()), item)
EagerFoldArg(k, accumulator, x) ==
    LET seed == Clone(EagerFoldInitialValue)
        acc == UnwrapOr(accumulator, seed)
        ret == EagerFoldOperation(acc, x)
    IN  [ret |-> ret,
         calls |-> <<Call("clone", <<EagerFoldInitialValue>>, seed),
                     Call("operation", <<acc, x>>, ret)>>]

\* reduce_with_key: if let Some(accumulator) { operation(..) } else { item.clone().into() }
EagerReduceWithKeyArg(k, accumulator, x) ==
    IF IsSome(accumulator)
    THEN LET ret == KeyedOperation(k, Unwrap(accumulator), x)
         IN  [ret |-> ret,
              calls |-> <<Call("operation", <<k, Unwrap(accumulator), x>>, ret)>>]
    ELSE LET ret == Into(Clone(x))
         IN  [ret |-> ret, calls |-> <<Call("into", <<x>>, ret)>>]

\* The operation argument aggregate receives, by the method the caller invoked.
EagerOperationArg(k, accumulator, x) ==
    CASE op = "aggregate" -> EagerAggregateArg(k, accumulator, x)
      [] op = "fold_with_key" -> EagerFoldWithKeyArg(k, accumulator, x)
      [] op \in {"fold", "each_count"} -> EagerFoldArg(k, accumulator, x)
      [] op = "reduce_with_key" -> EagerReduceWithKeyArg(k, accumulator, x)

-----------------------------------------------------------------------------
(* akt2.rs: the closures of the lazy form *)

LazyAggregateArg(k, accumulator, x) ==
    [ret |-> AggregateOperation(k, accumulator, x), calls |-> <<>>]

\* Variant: the first item of a key only selects the seed; the operation is
\* not applied to it.
LazyFoldWithKeyArg_SeedOnly(k, accumulator, x) ==
    LET seed == InitialValueSelector(k, x)
        ret == IF IsSome(accumulator) THEN KeyedOperation(k, Unwrap(accumulator), x)
               ELSE seed
    IN  [ret |-> ret,
         calls |-> <<Call("initial_value_selector", <<k, x>>, seed)>>
                   \o (IF IsSome(accumulator)
                       THEN <<Call("operation", <<k, Unwrap(accumulator), x>>, ret)>>
                       ELSE <<>>)]

\* fold_with_key: operation(key, accumulator.unwrap_or(initial_value_selector(key, &item)), item)
LazyFoldWithKeyArg(k, accumulator, x) ==
    LET seed == InitialValueSelector(k, x)
        acc == UnwrapOr(accumulator, seed)
        ret == KeyedOperation(k, acc, x)
    IN  [ret |-> ret,
         calls |-> <<Call("initial_value_selector", <<k, x>>, seed),
                     Call("operation", <<k, acc, x>>, ret)>>]

\* fold_with: operation(key, accumulator.unwrap_or(initial_value_provider()), item)
LazyFoldWithArg(k, accumulator, x) ==
    LET seed == InitialValueProvider(Len(CallsOf(calls, "initial_value_provider")) + 1)
        acc == UnwrapOr(accumulator, seed)
        ret == KeyedOperation(k, acc, x)
    IN  [ret |-> ret,
         calls |-> <<Call("initial_value_provider", <<>>, seed),
                     Call("operation", <<k, acc, x>>, ret)>>]

\* each_count: self.fold(0, |accumulator, _| accumulator + 1)
LazyEachCountOperation(accumulator, x) == accumulator + 1

LazyFoldInitialValue == IF op = "each_count" THEN 0 ELSE InitialValue

LazyFoldOperation(accumulator, x) ==
    IF op = "each_count" THEN LazyEachCountOperation(accumulator, x)
    ELSE PlainOperation(accumulator, x)

\* Variant: the initial value is not cloned but shared, so a new key starts
\* from whatever was accumulated last.
LazyFoldArg_SharedSeed(k, accumulator, x) ==
    LET combined == CallsOf(calls, "combine")
        seed == IF combined = <<>> THEN LazyFoldInitialValue
                ELSE combined[Len(combined)].ret
        acc == UnwrapOr(accumulator, seed)
        ret == LazyFoldOperation(acc, x)
    IN  [ret |-> ret,
         calls |-> <<Call("clone", <<LazyFoldInitialValue>>, seed),
                     Call("operation", <<acc, x>>, ret)>>]

\* fold: operation(accumulator.unwrap_or(initial_value.clone()), item)
LazyFoldArg(k, accumulator, x) ==
    LET seed == Clone(LazyFoldInitialValue)
        acc == UnwrapOr(accumulator, seed)
        ret == LazyFoldOperation(acc, x)
    IN  [ret |-> ret,
         calls |-> <<Call("clone", <<LazyFoldInitialValue>>, seed),
                     Call("operation", <<acc, x>>, ret)>>]

\* reduce: self.reduce_with_key(|_, accumulator, item| operation(accumulator, item))
LazyReduceOperation(k, accumulator, x) ==
    IF op = "reduce" THEN PlainOperation(accumulator, x)
    ELSE KeyedOperation(k, accumulator, x)

LazyReduceOperationArgs(k, accumulator, x) ==
    IF op = "reduce" THEN <<accumulator, x>> ELSE <<k, accumulator, x>>

\* Variant: the first item of a key is converted and then also given to the
\* operation.
LazyReduceWithKeyArg_FirstThroughOperation(k, accumulator, x) ==
    LET acc == UnwrapOr(accumulator, Into(x))
        ret == LazyReduceOperation(k, acc, x)
    IN  [ret |-> ret,
         calls |-> (IF IsSome(accumulator) THEN <<>> ELSE <<Call("into", <<x>>, Into(x))>>)
                   \o <<Call("operation", LazyReduceOperationArgs(k, acc, x), ret)>>]

\* reduce_with_key: if let Some(accumulator) { operation(..) } else { item.into() }
LazyReduceWithKeyArg(k, accumulator, x) ==
    IF IsSome(accumulator)
    THEN LET ret == LazyReduceOperation(k, Unwrap(accumulator), x)
         IN  [ret |-> ret,
              calls |-> <<Call("operation",
                               LazyReduceOperationArgs(k, Unwrap(accumulator), x), ret)>>]
    ELSE LET ret == Into(x)
         IN  [ret |-> ret, calls |-> <<Call("into", <<x>>, ret)>>]

LazyOperationArg(k, accumulator, x) ==
    CASE op = "aggregate" -> LazyAggregateArg(k, accumulator, x)
      [] op = "fold_with_key" -> LazyFoldWithKeyArg(k, accumulator, x)
      [] op = "fold_with" -> LazyFoldWithArg(k, accumulator, x)
      [] op \in {"fold", "each_count"} -> LazyFoldArg(k, accumulator, x)
      [] op \in {"reduce_with_key", "reduce"} -> LazyReduceWithKeyArg(k, accumulator, x)

\* Variant: the wrapper looks one item ahead and loses it.
GroupingNext_LookAhead(it) ==
    IF it = <<>>
    THEN [out |-> None, iter |-> it, calls |-> <<>>]
    ELSE LET x == Head(it)
             k == key_selector(x)
         IN  [out |-> Some(<<k, x>>),
              iter |-> IF Len(it) >= 2 THEN Tail(Tail(it)) ELSE Tail(it),
              calls |-> <<Call("key_selector", <<x>>, k)>>]

\* Grouping::next: one item from the source, tagged with its key; None at the end.
GroupingNext(it) ==
    IF it = <<>>
    THEN [out |-> None, iter |-> it, calls |-> <<>>]
    ELSE LET x == Head(it)
             k == key_selector(x)
         IN  [out |-> Some(<<k, x>>), iter |-> Tail(it),
              calls |-> <<Call("key_selector", <<x>>, k)>>]

-----------------------------------------------------------------------------
(* Panics.  Neither aggregate nor a derived operation catches an unwind: a  *)
(* panic of a caller-supplied function leaves the call at once, dropping    *)
(* its locals, the map among them.                                          *)

\* The callbacks of the caller that the closure r invokes, by position in
\* r.calls; 0 is aggregate's operation itself when it is the caller's own.
\* each_count supplies its own seed and operation, which do not panic.
FaultPoints(r) ==
    IF op = "each_count" THEN {}
    ELSE IF r.calls = <<>> THEN {0}
    ELSE 1..Len(r.calls)

\* The callback at fault point i of the closure r.
FaultFn(r, i) == IF i = 0 THEN "operation" ELSE r.calls[i].fn

\* The callbacks of r that returned before fault point i.
CompletedBefore(r, i) == IF i = 0 THEN <<>> ELSE SubSeq(r.calls, 1, i - 1)

-----------------------------------------------------------------------------
(* Construction *)

\* akt1.rs grouping_by: the eager handle owns the collection.  No lazy
\* grouping exists yet and nothing has been returned.
Init ==
    /\ src \in Sources
    /\ op \in LazyOps
    /\ raw = src
    /\ cur = 0
    /\ iter = <<>>
    /\ form = "none"
    /\ pc = "idle"
    /\ item = None
    /\ key = None
    /\ entry = None
    /\ value = None
    /\ m = EmptyMap
    /\ calls = <<>>
    /\ pulls = 0
    /\ yielded = <<>>
    /\ lastEager = None
    /\ lastLazy = None
    /\ fault = None

-----------------------------------------------------------------------------
(* akt1.rs: Grouping::aggregate of the eager form, statement by statement *)

\* Variant: the pass goes on with the iterator of the pass before.
EagerAggregate_StaleIterator ==
    /\ pc = "idle"
    /\ op \in EagerOps
    /\ form' = "eager"
    /\ m' = EmptyMap
    /\ calls' = <<>>
    /\ pc' = "next"
    /\ UNCHANGED <<fault, src, op, raw, cur, iter, item, key, entry, value, pulls, yielded,
                   lastEager, lastLazy>>

\* The caller invokes op on the handle; aggregate starts with an empty map
\* and a fresh iterator over raw.
EagerAggregate ==
    /\ pc = "idle"
    /\ op \in EagerOps
    /\ form' = "eager"
    /\ m' = EmptyMap
    /\ cur' = 0
    /\ calls' = <<>>
    /\ pc' = "next"
    /\ UNCHANGED <<fault, src, op, raw, iter, item, key, entry, value, pulls, yielded,
                   lastEager, lastLazy>>

\* Variant: the loop takes the items out of the stored collection.
EagerIterNext_Drain ==
    /\ form = "eager"
    /\ pc = "next"
    /\ IF raw # <<>>
       THEN /\ item' = Some(Head(raw))
            /\ raw' = Tail(raw)
            /\ cur' = cur + 1
            /\ pc' = "key"
       ELSE /\ pc' = "return"
            /\ UNCHANGED <<item, cur, raw>>
    /\ UNCHANGED <<fault, src, op, iter, form, key, entry, value, m, calls, pulls,
                   yielded, lastEager, lastLazy>>

\* Variant: the loop stops one item early.
EagerIterNext_OffByOne ==
    /\ form = "eager"
    /\ pc = "next"
    /\ IF cur < Len(raw) - 1
       THEN /\ item' = Some(raw[cur + 1])
            /\ cur' = cur + 1
            /\ pc' = "key"
       ELSE /\ pc' = "return"
            /\ UNCHANGED <<item, cur>>
    /\ UNCHANGED <<fault, src, op, raw, iter, form, key, entry, value, m, calls, pulls,
                   yielded, lastEager, lastLazy>>

\* for item in self.source_iterator()
EagerIterNext ==
    /\ form = "eager"
    /\ pc = "next"
    /\ IF cur < Len(raw)
       THEN /\ item' = Some(raw[cur + 1])
            /\ cur' = cur + 1
            /\ pc' = "key"
       ELSE /\ pc' = "return"
            /\ UNCHANGED <<item, cur>>
    /\ UNCHANGED <<fault, src, op, raw, iter, form, key, entry, value, m, calls, pulls,
                   yielded, lastEager, lastLazy>>

\* Variant: the key function is evaluated a second time on the item.
EagerKeyOf_Twice ==
    /\ form = "eager"
    /\ pc = "key"
    /\ LET k == key_selector(Unwrap(item))
       IN  /\ key' = Some(k)
           /\ calls' = calls \o <<Call("key_selector", <<Unwrap(item)>>, k),
                                  Call("key_selector", <<Unwrap(item)>>, k)>>
    /\ pc' = "remove"
    /\ UNCHANGED <<fault, src, op, raw, cur, iter, form, item, entry, value, m, pulls,
                   yielded, lastEager, lastLazy>>

\* let key = self.key_of(item)
EagerKeyOf ==
    /\ form = "eager"
    /\ pc = "key"
    /\ LET k == key_selector(Unwrap(item))
       IN  /\ key' = Some(k)
           /\ calls' = Append(calls, Call("key_selector", <<Unwrap(item)>>, k))
    /\ pc' = "remove"
    /\ UNCHANGED <<fault, src, op, raw, cur, iter, form, item, entry, value, m, pulls,
                   yielded, lastEager, lastLazy>>

\* Variant: the entry is looked up but left in the map.
EagerRemove_Get ==
    /\ form = "eager"
    /\ pc = "remove"
    /\ entry' = MapRemove(m, Unwrap(key)).ret
    /\ pc' = "operation"
    /\ UNCHANGED <<fault, src, op, raw, cur, iter, form, item, key, value, m, calls,
                   pulls, yielded, lastEager, lastLazy>>

\* m.remove(&key)
EagerRemove ==
    /\ form = "eager"
    /\ pc = "remove"
    /\ LET r == MapRemove(m, Unwrap(key))
       IN  /\ entry' = r.ret
           /\ m' = r.map
    /\ pc' = "operation"
    /\ UNCHANGED <<fault, src, op, raw, cur, iter, form, item, key, value, calls, pulls,
                   yielded, lastEager, lastLazy>>

\* .map_or_else(|| operation(&key, None, item),
\*              |accumulator| operation(&key, Some(accumulator), item))
EagerOperation ==
    /\ form = "eager"
    /\ pc = "operation"
    /\ LET accumulator == IF IsSome(entry) THEN Some(Unwrap(entry)) ELSE None
           r == EagerOperationArg(Unwrap(key), accumulator, Unwrap(item))
       IN  /\ value' = Some(r.ret)
           /\ calls' = calls
                        \o <<Call("combine", <<Unwrap(key), accumulator, Unwrap(item)>>, r.ret)>>
                        \o r.calls
    /\ pc' = "insert"
    /\ UNCHANGED <<fault, src, op, raw, cur, iter, form, item, key, entry, m, pulls,
                   yielded, lastEager, lastLazy>>

\* self.key_of(item) panics.
EagerKeyOfFault ==
    /\ form = "eager"
    /\ pc = "key"
    /\ fault' = Some([fn |-> "key_selector", at |-> cur])
    /\ pc' = "panicked"
    /\ m' = EmptyMap
    /\ item' = None
    /\ key' = None
    /\ entry' = None
    /\ value' = None
    /\ UNCHANGED <<src, op, raw, cur, iter, form, calls, pulls, yielded, lastEager,
                   lastLazy>>

\* A callback invoked by operation(&key, .., item) panics.
EagerOperationFault ==
    /\ form = "eager"
    /\ pc = "operation"
    /\ LET accumulator == IF IsSome(entry) THEN Some(Unwrap(entry)) ELSE None
           r == EagerOperationArg(Unwrap(key), accumulator, Unwrap(item))
       IN  \E i \in FaultPoints(r) :
               /\ fault' = Some([fn |-> FaultFn(r, i), at |-> cur])
               /\ calls' = calls \o CompletedBefore(r, i)
    /\ pc' = "panicked"
    /\ m' = EmptyMap
    /\ item' = None
    /\ key' = None
    /\ entry' = None
    /\ value' = None
    /\ UNCHANGED <<src, op, raw, cur, iter, form, pulls, yielded, lastEager,
                   lastLazy>>

\* m.insert(key, value)
EagerInsert ==
    /\ form = "eager"
    /\ pc = "insert"
    /\ m' = MapInsert(m, Unwrap(key), Unwrap(value))
    /\ item' = None
    /\ key' = None
    /\ entry' = None
    /\ value' = None
    /\ pc' = "next"
    /\ UNCHANGED <<fault, src, op, raw, cur, iter, form, calls, pulls, yielded,
                   lastEager, lastLazy>>

\* m: the map is moved out to the caller.
EagerReturn ==
    /\ form = "eager"
    /\ pc = "return"
    /\ lastEager' = Some(m)
    /\ m' = EmptyMap
    /\ pc' = "idle"
    /\ UNCHANGED <<fault, src, op, raw, cur, iter, form, item, key, entry, value, calls,
                   pulls, yielded, lastLazy>>

-----------------------------------------------------------------------------
(* akt2.rs: the lazy form *)

\* iter.grouping_by(key_selector): a Grouping over a fresh iterator of the
\* items.  Nothing is pulled.
LazyGroupingBy ==
    /\ pc = "idle"
    /\ form' = "lazy"
    /\ iter' = src
    /\ pulls' = 0
    /\ yielded' = <<>>
    /\ calls' = <<>>
    /\ pc' = "grouping"
    /\ UNCHANGED <<fault, src, op, raw, cur, item, key, entry, value, m, lastEager,
                   lastLazy>>

\* The user calls next() on the grouping.
IteratorNext ==
    /\ form = "lazy"
    /\ pc = "grouping"
    /\ op = "next"
    /\ pulls < MaxPulls
    /\ LET r == GroupingNext(iter)
       IN  /\ iter' = r.iter
           /\ calls' = calls \o r.calls
           /\ yielded' = Append(yielded, r.out)
    /\ pulls' = pulls + 1
    /\ UNCHANGED <<fault, src, op, raw, cur, form, pc, item, key, entry, value, m,
                   lastEager, lastLazy>>

\* The user drops the grouping.
LazyDrop ==
    /\ form = "lazy"
    /\ pc = "grouping"
    /\ op = "next"
    /\ iter' = <<>>
    /\ pc' = "idle"
    /\ UNCHANGED <<fault, src, op, raw, cur, form, item, key, entry, value, m, calls,
                   pulls, yielded, lastEager, lastLazy>>

\* The caller invokes op on the grouping, which is moved into the call.
LazyAggregate ==
    /\ form = "lazy"
    /\ pc = "grouping"
    /\ op # "next"
    /\ m' = EmptyMap
    /\ pc' = "next"
    /\ UNCHANGED <<fault, src, op, raw, cur, iter, form, item, key, entry, value, calls,
                   pulls, yielded, lastEager, lastLazy>>

\* while let Some((key, value)) = self.next()
LazyNext ==
    /\ form = "lazy"
    /\ pc = "next"
    /\ LET r == GroupingNext(iter)
       IN  /\ iter' = r.iter
           /\ calls' = calls \o r.calls
           /\ IF IsSome(r.out)
              THEN /\ key' = Some(Unwrap(r.out)[1])
                   /\ item' = Some(Unwrap(r.out)[2])
                   /\ pc' = "remove"
              ELSE /\ pc' = "return"
                   /\ UNCHANGED <<key, item>>
    /\ pulls' = pulls + 1
    /\ UNCHANGED <<fault, src, op, raw, cur, form, entry, value, m, yielded, lastEager,
                   lastLazy>>

\* m.remove(&key)
LazyRemove ==
    /\ form = "lazy"
    /\ pc = "remove"
    /\ LET r == MapRemove(m, Unwrap(key))
       IN  /\ entry' = r.ret
           /\ m' = r.map
    /\ pc' = "operation"
    /\ UNCHANGED <<fault, src, op, raw, cur, iter, form, item, key, value, calls, pulls,
                   yielded, lastEager, lastLazy>>

\* if let Some(entry) = .. { operation(&key, Some(entry), value) }
\* else { operation(&key, None, value) }
LazyOperation ==
    /\ form = "lazy"
    /\ pc = "operation"
    /\ LET accumulator == IF IsSome(entry) THEN Some(Unwrap(entry)) ELSE None
           r == LazyOperationArg(Unwrap(key), accumulator, Unwrap(item))
       IN  /\ value' = Some(r.ret)
           /\ calls' = calls
                        \o <<Call("combine", <<Unwrap(key), accumulator, Unwrap(item)>>, r.ret)>>
                        \o r.calls
    /\ pc' = "insert"
    /\ UNCHANGED <<fault, src, op, raw, cur, iter, form, item, key, entry, m, pulls,
                   yielded, lastEager, lastLazy>>

\* Variant: the branch that found an entry does not insert the new accumulator.
LazyInsert_ForgetReinsert ==
    /\ form = "lazy"
    /\ pc = "insert"
    /\ m' = IF IsSome(entry) THEN m ELSE MapInsert(m, Unwrap(key), Unwrap(value))
    /\ item' = None
    /\ key' = None
    /\ entry' = None
    /\ value' = None
    /\ pc' = "next"
    /\ UNCHANGED <<fault, src, op, raw, cur, iter, form, calls, pulls, yielded,
                   lastEager, lastLazy>>

\* self.next() panics: in the source iterator, before it hands out an item,
\* or in the key selector, on the item just pulled.
LazyNextFault ==
    /\ form = "lazy"
    /\ pc = "next"
    /\ \/ /\ fault' = Some([fn |-> "source", at |-> Len(src) - Len(iter) + 1])
          /\ UNCHANGED iter
       \/ /\ iter # <<>>
          /\ fault' = Some([fn |-> "key_selector", at |-> Len(src) - Len(iter) + 1])
          /\ iter' = Tail(iter)
    /\ pulls' = pulls + 1
    /\ pc' = "panicked"
    /\ m' = EmptyMap
    /\ UNCHANGED <<src, op, raw, cur, form, item, key, entry, value, calls, yielded,
                   lastEager, lastLazy>>

\* Variant: the panic of a callback is caught, the item skipped and the loop
\* goes on with the map built so far.
LazyOperationFault_Suppressed ==
    /\ form = "lazy"
    /\ pc = "operation"
    /\ LET accumulator == IF IsSome(entry) THEN Some(Unwrap(entry)) ELSE None
           r == LazyOperationArg(Unwrap(key), accumulator, Unwrap(item))
       IN  \E i \in FaultPoints(r) :
               /\ fault' = Some([fn |-> FaultFn(r, i), at |-> Len(src) - Len(iter)])
               /\ calls' = calls \o CompletedBefore(r, i)
    /\ pc' = "next"
    /\ item' = None
    /\ key' = None
    /\ entry' = None
    /\ value' = None
    /\ UNCHANGED <<src, op, raw, cur, iter, form, m, pulls, yielded, lastEager,
                   lastLazy>>

\* A callback invoked by operation(&key, .., value) panics.
LazyOperationFault ==
    /\ form = "lazy"
    /\ pc = "operation"
    /\ LET accumulator == IF IsSome(entry) THEN Some(Unwrap(entry)) ELSE None
           r == LazyOperationArg(Unwrap(key), accumulator, Unwrap(item))
       IN  \E i \in FaultPoints(r) :
               /\ fault' = Some([fn |-> FaultFn(r, i), at |-> Len(src) - Len(iter)])
               /\ calls' = calls \o CompletedBefore(r, i)
    /\ pc' = "panicked"
    /\ m' = EmptyMap
    /\ item' = None
    /\ key' = None
    /\ entry' = None
    /\ value' = None
    /\ UNCHANGED <<src, op, raw, cur, iter, form, pulls, yielded, lastEager,
                   lastLazy>>

\* m.insert(key, accumulator) / m.insert(key, value)
LazyInsert ==
    /\ form = "lazy"
    /\ pc = "insert"
    /\ m' = MapInsert(m, Unwrap(key), Unwrap(value))
    /\ item' = None
    /\ key' = None
    /\ entry' = None
    /\ value' = None
    /\ pc' = "next"
    /\ UNCHANGED <<fault, src, op, raw, cur, iter, form, calls, pulls, yielded,
                   lastEager, lastLazy>>

\* Variant: the loop asks the source once more after its end.
LazyReturn_ExtraPull ==
    /\ form = "lazy"
    /\ pc = "return"
    /\ lastLazy' = Some(m)
    /\ m' = EmptyMap
    /\ pulls' = pulls + 1
    /\ pc' = "idle"
    /\ UNCHANGED <<fault, src, op, raw, cur, iter, form, item, key, entry, value, calls,
                   yielded, lastEager>>

\* m: the map is moved out to the caller.
LazyReturn ==
    /\ form = "lazy"
    /\ pc = "return"
    /\ lastLazy' = Some(m)
    /\ m' = EmptyMap
    /\ pc' = "idle"
    /\ UNCHANGED <<fault, src, op, raw, cur, iter, form, item, key, entry, value, calls,
                   pulls, yielded, lastEager>>

-----------------------------------------------------------------------------

Next ==
    \/ EagerAggregate
    \/ EagerIterNext
    \/ EagerKeyOf
    \/ EagerRemove
    \/ EagerOperation
    \/ EagerKeyOfFault
    \/ EagerOperationFault
    \/ EagerInsert
    \/ EagerReturn
    \/ LazyGroupingBy
    \/ IteratorNext
    \/ LazyDrop
    \/ LazyAggregate
    \/ LazyNext
    \/ LazyRemove
    \/ LazyOperation
    \/ LazyNextFault
    \/ LazyOperationFault
    \/ LazyInsert
    \/ LazyReturn

Spec == Init /\ [][Next]_vars

\* A statement of the aggregate loop.  A call runs on one thread with no
\* suspension point: once begun, its next statement is always executed.
PassStep ==
    \/ EagerIterNext
    \/ EagerKeyOf
    \/ EagerRemove
    \/ EagerOperation
    \/ EagerInsert
    \/ EagerReturn
    \/ LazyNext
    \/ LazyRemove
    \/ LazyOperation
    \/ LazyInsert
    \/ LazyReturn

FairSpec == Spec /\ WF_vars(PassStep)

-----------------------------------------------------------------------------
(* What the properties below are stated in *)

\* The distinct keys the key selector gives over a sequence.
KeysOf(s) == {key_selector(s[i]) : i \in DOMAIN s}

\* The items of a sequence that bear key k, in the sequence's order.
RECURSIVE ItemsOf(_, _)
ItemsOf(s, k) ==
    IF s = <<>> THEN <<>>
    ELSE IF key_selector(Head(s)) = k THEN <<Head(s)>> \o ItemsOf(Tail(s), k)
    ELSE ItemsOf(Tail(s), k)

\* The positions before i whose item bears the key of the item at i.
EarlierOfKey(s, i) == {j \in 1..(i - 1) : key_selector(s[j]) = key_selector(s[i])}

Max(S) == CHOOSE x \in S : \A y \in S : y <= x

\* The invocations of the operation aggregate was given.
CombineCalls == CallsOf(calls, "combine")

\* The invocations of the seed function of fold_with_key and fold_with.
SeedCalls ==
    CallsOf(calls, "initial_value_selector") \o CallsOf(calls, "initial_value_provider")

\* Items the current / latest pass has taken from its source.
Consumed == IF form = "eager" THEN cur ELSE Len(src) - Len(iter)

\* A pass of an aggregation operation is under way or has returned, and no
\* callback has panicked.
InPass == form # "none" /\ op # "next" /\ IsNone(fault)

\* The latest pass has returned its mapping.
Returned == InPass /\ pc = "idle"

\* The mappings returned so far.
Results == {r \in {lastEager, lastLazy} : IsSome(r)}

\* aggregate's operation chained over the items of key k, from accumulator acc.
RECURSIVE AggregateChain(_, _, _)
AggregateChain(k, items, acc) ==
    IF items = <<>> THEN acc
    ELSE AggregateChain(k, Tail(items), Some(AggregateOperation(k, acc, Head(items))))

\* Of the first n items of s, those that are not the first of their key.
RECURSIVE NonFirst(_, _)
NonFirst(s, n) ==
    IF n = 0 THEN <<>>
    ELSE NonFirst(s, n - 1) \o (IF EarlierOfKey(s, n) = {} THEN <<>> ELSE <<s[n]>>)

\* Of the first n items of s, those that are the first of their key.
RECURSIVE FirstOfKey(_, _)
FirstOfKey(s, n) ==
    IF n = 0 THEN <<>>
    ELSE FirstOfKey(s, n - 1) \o (IF EarlierOfKey(s, n) = {} THEN <<s[n]>> ELSE <<>>)

\* The operation of reduce / reduce_with_key chained over items, from acc.
RECURSIVE ReduceChain(_, _, _)
ReduceChain(k, items, acc) ==
    IF items = <<>> THEN acc
    ELSE ReduceChain(k, Tail(items),
                     IF op = "reduce" THEN PlainOperation(acc, Head(items))
                     ELSE KeyedOperation(k, acc, Head(items)))

\* fold's operation chained over items, from acc.
RECURSIVE FoldChain(_, _)
FoldChain(items, acc) ==
    IF items = <<>> THEN acc
    ELSE FoldChain(Tail(items), PlainOperation(acc, Head(items)))

\* fold_with_key's operation chained over the items of key k, from acc.
RECURSIVE FoldWithKeyChain(_, _, _)
FoldWithKeyChain(k, items, acc) ==
    IF items = <<>> THEN acc
    ELSE FoldWithKeyChain(k, Tail(items), KeyedOperation(k, acc, Head(items)))

\* The evaluations of the key function.
KeyCalls == CallsOf(calls, "key_selector")

Min(a, b) == IF a <= b THEN a ELSE b

\* The keys aggregate's operation has been invoked for.
CombinedKeys == {CombineCalls[i].args[1] : i \in 1..Len(CombineCalls)}

\* What the latest invocation of aggregate's operation for key k returned.
LatestAccumulator(k) ==
    CombineCalls[Max({i \in 1..Len(CombineCalls) : CombineCalls[i].args[1] = k})].ret

\* The positions of the aggregate loop.
InLoop == InPass /\ pc \in {"next", "key", "remove", "operation", "insert", "return"}

\* The key derivations and the invocations of aggregate's operation, in the
\* order they were made.
RECURSIVE KeyAndCombineCalls(_)
KeyAndCombineCalls(log) ==
    IF log = <<>> THEN <<>>
    ELSE IF log[1].fn \in {"key_selector", "combine"}
         THEN <<log[1]>> \o KeyAndCombineCalls(Tail(log))
         ELSE KeyAndCombineCalls(Tail(log))

\* Key derivations and invocations of the operation alternate, item by item:
\* the key of item i, then the operation on item i with that key.
KeysInStepWithCombines ==
    LET kc == KeyAndCombineCalls(calls)
    IN  /\ Len(KeyCalls) =
              Len(CombineCalls) + (IF pc \in {"remove", "operation"} THEN 1 ELSE 0)
        /\ \A j \in 1..Len(kc) :
              LET i == (j + 1) \div 2
              IN  IF j % 2 = 1
                  THEN /\ kc[j].fn = "key_selector"
                       /\ kc[j].args = <<src[i]>>
                  ELSE /\ kc[j].fn = "combine"
                       /\ kc[j].args[1] = kc[j - 1].ret
                       /\ kc[j].args[3] = src[i]
        /\ pc = "idle" => Len(KeyCalls) = Len(src)

-----------------------------------------------------------------------------
(* Properties *)

\* C1: each_count maps every key to the number of source items bearing it (a
\* key's first item counts as 1) and holds no key that no item bears, in the
\* eager and in the lazy form.
C1_EachCountCounts ==
    op = "each_count" =>
        \A r \in Results :
            /\ DOMAIN Unwrap(r) = KeysOf(src)
            /\ \A k \in {key_selector(x) : x \in Items} :
                  IF Len(ItemsOf(src, k)) = 0
                  THEN k \notin DOMAIN Unwrap(r)
                  ELSE Unwrap(r)[k] = Len(ItemsOf(src, k))

C1_Witness ==
    /\ op = "each_count"
    /\ IsSome(lastEager)
    /\ IsSome(lastLazy)
    /\ \E k \in DOMAIN Unwrap(lastEager) : Unwrap(lastEager)[k] = 2
    /\ \E k \in DOMAIN Unwrap(lastLazy) : Unwrap(lastLazy)[k] = 1

\* C2: the i-th invocation of aggregate's operation receives None exactly when
\* item i is the first of the source to bear its key, and otherwise Some(v), v
\* being what the operation returned for the latest earlier item of that key.
C2_AccumulatorArgument ==
    InPass =>
        \A i \in 1..Len(CombineCalls) :
            LET c == CombineCalls[i]
                earlier == EarlierOfKey(src, i)
            IN  /\ c.args[1] = key_selector(src[i])
                /\ c.args[3] = src[i]
                /\ IsNone(c.args[2]) <=> earlier = {}
                /\ earlier # {} => c.args[2] = Some(CombineCalls[Max(earlier)].ret)

C2_Witness ==
    /\ op = "aggregate"
    /\ Len(CombineCalls) = 3
    /\ IsNone(CombineCalls[2].args[2])
    /\ IsSome(CombineCalls[3].args[2])
    /\ CombineCalls[3].args[1] = CombineCalls[1].args[1]

\* C3 (the claim as stated): in fold_with_key and fold_with the seed function
\* has been invoked once per distinct key met so far, not once per item.
C3_SeedOncePerKey ==
    (InPass /\ op \in {"fold_with_key", "fold_with"}) =>
        Len(SeedCalls) = Cardinality({CombineCalls[i].args[1] : i \in 1..Len(CombineCalls)})

\* C4: aggregate invokes its operation once per item pulled, in source order:
\* the invocations so far are on the items consumed so far, one each, and a
\* returned pass has made exactly Len(src) of them.
C4_CombineOncePerItem ==
    InPass =>
        /\ Len(CombineCalls) =
              Consumed - (IF pc \in {"key", "remove", "operation"} THEN 1 ELSE 0)
        /\ \A i \in 1..Len(CombineCalls) : CombineCalls[i].args[3] = src[i]
        /\ pc = "idle" => Len(CombineCalls) = Len(src)

C4_Witness ==
    /\ Returned
    /\ op = "aggregate"
    /\ Len(src) = 3
    /\ Len(CombineCalls) = 3
    /\ src[1] # src[2]

\* C5: the value aggregate returns at key k is the operation chained over the
\* items bearing k in source order, starting from None, whatever items of
\* other keys lie between them.
C5_AggregateChainsPerKey ==
    op = "aggregate" =>
        \A r \in Results :
            \A k \in KeysOf(src) :
                /\ k \in DOMAIN Unwrap(r)
                /\ Some(Unwrap(r)[k]) = AggregateChain(k, ItemsOf(src, k), None)

C5_Witness ==
    /\ op = "aggregate"
    /\ IsSome(lastLazy)
    /\ IsSome(lastEager)
    /\ Len(src) = 3
    /\ key_selector(src[1]) = key_selector(src[3])
    /\ key_selector(src[1]) # key_selector(src[2])
    /\ src[1] # src[3]

\* C6: the mapping every aggregation operation returns has exactly the
\* distinct keys of the source as its keys; it is empty for an empty source.
C6_KeySetIsDistinctKeys ==
    \A r \in Results :
        /\ DOMAIN Unwrap(r) = KeysOf(src)
        /\ Cardinality(DOMAIN Unwrap(r)) = Cardinality(KeysOf(src))
        /\ src = <<>> => Unwrap(r) = EmptyMap

C6_Witness ==
    /\ IsSome(lastLazy)
    /\ Len(src) = 3
    /\ Cardinality(DOMAIN Unwrap(lastLazy)) = 2

C6_WitnessEmpty ==
    /\ IsSome(lastEager)
    /\ src = <<>>
    /\ Unwrap(lastEager) = EmptyMap

\* C7: in reduce and reduce_with_key the first item of every key becomes the
\* accumulator by conversion and is never given to the operation; every later
\* item of the key is given to it once, with the running accumulator, in source
\* order; so a returned pass has invoked the operation N - D times.
C7_ReduceSeedsByConversion ==
    (InPass /\ op \in {"reduce", "reduce_with_key"}) =>
        LET ops == CallsOf(calls, "operation")
            intos == CallsOf(calls, "into")
            n == Len(CombineCalls)
        IN  /\ [i \in 1..Len(ops) |-> ops[i].args[Len(ops[i].args)]] = NonFirst(src, n)
            /\ [i \in 1..Len(intos) |-> intos[i].args[1]] = FirstOfKey(src, n)
            /\ pc = "idle" => Len(ops) = Len(src) - Cardinality(KeysOf(src))
            /\ \A r \in Results :
                  \A k \in KeysOf(src) :
                      /\ k \in DOMAIN Unwrap(r)
                      /\ Unwrap(r)[k] = ReduceChain(k, Tail(ItemsOf(src, k)),
                                                    Into(Head(ItemsOf(src, k))))

C7_Witness ==
    /\ Returned
    /\ op = "reduce"
    /\ Len(src) = 3
    /\ Cardinality(KeysOf(src)) = 2
    /\ Len(CallsOf(calls, "operation")) = 1
    /\ \E k \in KeysOf(src) : Len(ItemsOf(src, k)) = 1

\* C8: the pairs next() yields over the source x1..xN are (key(x1), x1), ..,
\* (key(xN), xN) in that order, and None from then on.
C8_PairsInSourceOrder ==
    op = "next" =>
        \A i \in 1..Len(yielded) :
            yielded[i] = IF i <= Len(src)
                         THEN Some(<<key_selector(src[i]), src[i]>>)
                         ELSE None

C8_Witness ==
    /\ op = "next"
    /\ Len(src) = 3
    /\ Len(yielded) = 4
    /\ src[1] # src[2]
    /\ src[2] # src[3]

\* C9: over the same items and with the same callbacks, the eager form and
\* the lazy form return the same mapping.
C9_EagerEqualsLazy ==
    (IsSome(lastEager) /\ IsSome(lastLazy)) => lastEager = lastLazy

C9_Witness ==
    /\ IsSome(lastEager)
    /\ IsSome(lastLazy)
    /\ op = "fold_with_key"
    /\ Len(src) = 3
    /\ Cardinality(DOMAIN Unwrap(lastEager)) = 2

\* C10: fold returns at key k the operation chained over the items bearing k
\* in source order, the first included, starting from the initial value: no
\* key's accumulator holds anything accumulated for another key.
C10_FoldChainsFromSeed ==
    op = "fold" =>
        \A r \in Results :
            \A k \in KeysOf(src) :
                /\ k \in DOMAIN Unwrap(r)
                /\ Unwrap(r)[k] = FoldChain(ItemsOf(src, k), InitialValue)

C10_Witness ==
    /\ op = "fold"
    /\ IsSome(lastEager)
    /\ IsSome(lastLazy)
    /\ Len(src) = 3
    /\ Cardinality(KeysOf(src)) = 2

\* C11: fold_with_key returns at key k the operation chained over the items
\* bearing k in source order, the first included, starting from the seed
\* selected from k and the first item bearing k.
C11_FoldWithKeyChainsFromSelectedSeed ==
    op = "fold_with_key" =>
        \A r \in Results :
            \A k \in KeysOf(src) :
                /\ k \in DOMAIN Unwrap(r)
                /\ Unwrap(r)[k] =
                      FoldWithKeyChain(k, ItemsOf(src, k),
                                       InitialValueSelector(k, Head(ItemsOf(src, k))))

C11_Witness ==
    /\ op = "fold_with_key"
    /\ IsSome(lastLazy)
    /\ IsSome(lastEager)
    /\ Len(src) = 3
    /\ \E k \in KeysOf(src) :
          /\ Len(ItemsOf(src, k)) = 2
          /\ ItemsOf(src, k)[1] # ItemsOf(src, k)[2]

\* C12: after j calls of next() on a grouping over N items, min(j, N) items
\* have been taken from the source and the key function has been evaluated
\* min(j, N) times, on those items in order, for as long as the grouping
\* lives and nothing panics; a grouping just constructed has taken no item and evaluated no key.
C12_OneItemOneKeyPerPull ==
    (form = "lazy" /\ pc # "idle" /\ IsNone(fault)) =>
        /\ Len(src) - Len(iter) = Min(pulls, Len(src))
        /\ Len(KeyCalls) = Min(pulls, Len(src))
        /\ \A i \in 1..Len(KeyCalls) : KeyCalls[i].args = <<src[i]>>
        /\ (pc = "grouping" /\ pulls = 0) => (iter = src /\ calls = <<>>)

C12_Witness ==
    /\ op = "next"
    /\ form = "lazy"
    /\ Len(src) = 3
    /\ pulls = 2
    /\ Len(iter) = 1
    /\ Len(KeyCalls) = 2

C12_WitnessPastEnd ==
    /\ op = "next"
    /\ Len(src) = 2
    /\ pulls = 4
    /\ Len(KeyCalls) = 2

\* C13: a pass repeated over the same unmodified source returns the mapping
\* the pass before it returned: each return of the eager handle, and each
\* return of a fresh lazy grouping over the same items, leaves the mapping
\* returned last as it was.
C13_RequeryReturnsSameMapping ==
    [][/\ (IsSome(lastEager) /\ IsSome(lastEager')) => lastEager' = lastEager
       /\ (IsSome(lastLazy) /\ IsSome(lastLazy')) => lastLazy' = lastLazy]_vars

C13_Witness ==
    /\ IsSome(lastEager)
    /\ form = "eager"
    /\ pc = "return"
    /\ op = "each_count"
    /\ Cardinality(DOMAIN m) = 2
    /\ m = Unwrap(lastEager)

\* C14: a panic of the key function, a seed function, the operation or the
\* source leaves the call at once, with the map dropped and nothing returned;
\* from then on no item is pulled, no callback invoked, the step is not
\* retried and no mapping is returned.
C14_FaultPropagatesAtOnce ==
    [][/\ IsSome(fault') =>
             /\ pc' = "panicked"
             /\ m' = EmptyMap
             /\ lastEager' = lastEager
             /\ lastLazy' = lastLazy
       /\ IsSome(fault) =>
             UNCHANGED <<fault, pc, calls, cur, iter, pulls, m, lastEager, lastLazy>>]_vars

C14_Witness ==
    /\ IsSome(fault)
    /\ Unwrap(fault).fn = "operation"
    /\ Unwrap(fault).at = 3
    /\ form = "lazy"
    /\ Len(CombineCalls) = 2
    /\ IsNone(lastLazy)
    /\ pc = "panicked"

\* C15: a call of aggregate ends: it returns its mapping, unless a callback
\* panics.  It reaches its return exactly on the pull that finds the source
\* exhausted, never before, and from that pull to the return it pulls nothing
\* more and invokes no callback.
C15_ReturnsAtExhaustion ==
    /\ (pc \in {"next", "key", "remove", "operation", "insert", "return"})
          ~> (pc = "idle" \/ IsSome(fault))
    /\ [][/\ (pc # "return" /\ pc' = "return") =>
                /\ pc = "next"
                /\ Consumed = Len(src)
                /\ Consumed' = Len(src)
                /\ calls' = calls
                /\ form = "lazy" => pulls' = Len(src) + 1
          /\ (pc = "next" /\ Consumed = Len(src)) => pc' \in {"return", "panicked"}
          /\ (pc # "idle" /\ pc' = "idle" /\ op # "next") =>
                /\ pc = "return"
                /\ (IF form = "eager" THEN lastEager' ELSE lastLazy') = Some(m)
                /\ UNCHANGED <<calls, cur, iter, pulls>>]_vars

C15_Witness ==
    /\ pc = "idle"
    /\ form = "lazy"
    /\ IsSome(lastLazy)
    /\ IsNone(fault)
    /\ Len(src) = 3
    /\ pulls = 4
    /\ Len(CombineCalls) = 3

\* C16 (the claim as stated): at every point of a pass, the execution of the
\* operation included, the map holds one entry for every key met so far, with
\* the latest accumulator of that key.
C16_EntryForEveryKeyAtAnyPoint ==
    InLoop =>
        /\ DOMAIN m = CombinedKeys
        /\ \A k \in DOMAIN m : m[k] = LatestAccumulator(k)

\* C16 (amended): at every point of a pass the map holds one entry, with the
\* latest accumulator, for every key met so far other than the key in flight;
\* from the removal of the current key's entry to the insertion of the new
\* one the map holds no entry for that key, whose latest accumulator is with
\* the call (first as the entry removed, then as the value returned).
C16_EntryForEveryKeyButTheOneInFlight ==
    InLoop =>
        LET inFlight == IF pc \in {"operation", "insert"} THEN {Unwrap(key)} ELSE {}
        IN  /\ DOMAIN m = CombinedKeys \ inFlight
            /\ \A k \in DOMAIN m : m[k] = LatestAccumulator(k)
            /\ pc = "operation" =>
                  entry = IF Unwrap(key) \in CombinedKeys
                          THEN Some(LatestAccumulator(Unwrap(key)))
                          ELSE None
            /\ pc = "insert" => value = Some(LatestAccumulator(Unwrap(key)))

C16_Witness ==
    /\ InLoop
    /\ pc = "operation"
    /\ IsSome(entry)
    /\ Unwrap(key) \notin DOMAIN m
    /\ Cardinality(DOMAIN m) = 1
    /\ Unwrap(key) \in CombinedKeys

\* C17: a pass derives one key per item, in source order and in step with
\* the operation: the key of item i is derived once the result for item i-1
\* is in the map and before the operation is invoked on item i, the operation
\* receives that very key, and a returned pass has derived Len(src) keys.
C17_KeyDerivationsInterleaved ==
    [][InPass' =>
          /\ KeysInStepWithCombines'
          /\ Len(KeyCalls') > Len(KeyCalls) =>
                /\ Len(KeyCalls') = Len(KeyCalls) + 1
                /\ DOMAIN m = CombinedKeys
                /\ \A k \in DOMAIN m : m[k] = LatestAccumulator(k)
                /\ Len(CombineCalls') = Len(CombineCalls)]_vars

C17_Witness ==
    /\ InPass
    /\ op = "aggregate"
    /\ form = "eager"
    /\ pc = "remove"
    /\ Len(KeyCalls) = 3
    /\ Len(CombineCalls) = 2
    /\ Cardinality(DOMAIN m) = 2

\* C18: the operations of the eager form leave the handle as it was built:
\* at every point, within a pass, after a return and after a panic, the stored
\* collection holds the items it was built from in their order; an idle handle
\* accepts a further pass; and a returning pass, a repeated one included, has
\* derived its keys with the key selector from exactly those items in order.
C18_EagerHandleUnchanged ==
    /\ raw = src
    /\ (pc = "idle" /\ op \in EagerOps) => ENABLED EagerAggregate
    /\ (form = "eager" /\ pc = "return") =>
          /\ cur = Len(raw)
          /\ Len(KeyCalls) = Len(src)
          /\ \A i \in 1..Len(src) :
                /\ KeyCalls[i].args = <<src[i]>>
                /\ KeyCalls[i].ret = key_selector(src[i])

C18_Witness ==
    /\ IsSome(lastEager)
    /\ form = "eager"
    /\ pc = "return"
    /\ op = "fold"
    /\ Len(src) = 3
    /\ raw = src
    /\ Len(KeyCalls) = 3

====
